---- MODULE Spec2Model ----
(***************************************************************************)
(* Model of the gomobile bridge android/usque_android.go: the tunnel       *)
(* lifecycle (StartTunnel / StopTunnel / IsRunning, the background         *)
(* goroutine that drives api.MaintainTunnel, its delayed OnConnected       *)
(* check and its exit path) and the connection options.  The file holds    *)
(* two revisions of the package; `rev` selects the one a behaviour runs:   *)
(* 1 = the revision with customEndpoint/parseEndpoint (lines 1-494),       *)
(* 2 = the revision with customEndpointV4/V6/useIPv6 (lines 496-956).      *)
(*                                                                         *)
(* Go strings that the code inspects character by character (endpoints)    *)
(* are sequences of one-character strings; strings that are only passed    *)
(* on (SNI, error messages) are TLA+ strings.  fmt.Sprintf("...: %v", err) *)
(* is modelled by its constant prefix.                                     *)
(***************************************************************************)
EXTENDS Integers, Sequences, FiniteSets, TLC

\* ------------------------------------------------------------------ bounds
\* Largest number of successful StartTunnel calls (runs) in a behaviour.
MaxRuns == 2
\* Largest number of runs in the behaviours that vary the connection options.
MaxOptRuns == 1
\* Largest number of runs in the behaviours that exercise the adapter.
MaxDevRuns == 1
\* Largest number of runs in the behaviours that set the custom endpoint of
\* revision 1.
MaxParseRuns == 2
\* Largest number of runs in the behaviours that change the options between
\* runs.
MaxReuseRuns == 2
\* Largest number of runs in the behaviours with an abnormal failure.
MaxPanicRuns == 2
\* Largest number of runs in the behaviours with a re-entrant observer.
MaxReentryRuns == 2
\* Largest number of service runs of UsqueVpnService.
MaxServiceRuns == 2
\* Largest number of runs in the behaviours of the settings dialog.
MaxSettingsRuns == 1
\* Largest number of runs in the behaviours that call InputPacket.
MaxInputRuns == 2

\* ------------------------------------------------------- program constants
Nil == 0                       \* nil CancelFunc / nil interface value
DefaultPort == 443
DefaultSNI == "www.visa.cn"
ConnectSNI == "consumer-masque.cloudflareclient.com"

ErrAlreadyRunning == "Tunnel is already running"
ErrLoadConfig == "Failed to load config"
ErrPrivateKey == "Failed to get private key"
ErrPeerPublicKey == "Failed to get peer public key"
ErrCert == "Failed to generate cert"
ErrTLS == "Failed to prepare TLS"
ErrTunDevice == "Failed to create TUN device"
ErrCustomEndpoint == "Invalid custom endpoint"
ReasonTunnelClosed == "Tunnel closed"

\* The synchronous steps of StartTunnel that fail for reasons outside this
\* package (profile on disk, key material, TLS set-up), in program order;
\* "none" when all of them succeed.
LoadSteps == {"config", "privkey", "pubkey", "cert", "tls"}

\* the string StartTunnel returns when that step fails
LoadError(step) ==
  CASE step = "config" -> ErrLoadConfig
    [] step = "privkey" -> ErrPrivateKey
    [] step = "pubkey" -> ErrPeerPublicKey
    [] step = "cert" -> ErrCert
    [] step = "tls" -> ErrTLS

\* -------------------------------------------------------- inputs (bounded)
Revisions == {1, 2}
Runs == 1..MaxRuns
\* callback argument of StartTunnel: nil or an observer
Callbacks == {Nil, 1}
\* packetFlow argument of StartTunnel: the sink the VPN service passes
PacketFlows == {1}
\* tunFd argument: os.NewFile returns nil exactly for a negative descriptor
TunFds == {-1, 3}

EpEmpty == <<>>
EpV4 == <<"1", ".", "2", ".", "3", ".", "4">>
EpV4Port == <<"1", ".", "2", ".", "3", ".", "4", ":", "8", "0">>
EpV4BadPort == <<"1", ".", "2", ".", "3", ".", "4", ":", "x">>
EpV6 == <<"2", "6", "0", "6", ":", ":", "1">>
EpV6Bracket == <<"[", "2", "6", "0", "6", ":", ":", "1", "]">>
EpV6NoClose == <<"[", "2", "6", "0", "6", ":", ":", "1">>
EpProfileV4 == <<"5", ".", "6", ".", "7", ".", "8">>
EpProfileV6 == <<"2", "6", "0", "6", ":", ":", "2">>

\* values the host passes to SetEndpoint (revision 1)
EndpointInputs == {EpEmpty, EpV6NoClose}

\* one endpoint string of every documented form of SetEndpoint (revision 1),
\* and of every form parseEndpoint rejects
EpV6BracketPort ==
  <<"[", "2", "6", "0", "6", ":", ":", "1", "]", ":", "8", "0">>
EpV6BracketBadPort ==
  <<"[", "2", "6", "0", "6", ":", ":", "1", "]", ":", "x">>
EpV4NoPort == <<"1", ".", "2", ".", "3", ".", "4", ":">>
ParseInputs ==
  {EpEmpty, EpV4, EpV4Port, EpV4BadPort, EpV4NoPort, EpV6Bracket,
   EpV6BracketPort, EpV6BracketBadPort, EpV6NoClose}

\* the profile read by config.LoadConfig
Profiles == {[v4 |-> EpProfileV4, v6 |-> EpProfileV6]}
NoProfile == [v4 |-> EpEmpty, v6 |-> EpEmpty]
\* profiles for the behaviours that vary the options: a registered one, and
\* a config.json that parses but carries no endpoint
OptProfiles == Profiles \cup {NoProfile}

\* values the host passes to SetSNI, SetEndpointV4, SetEndpointV6 (rev. 2)
CustomSNI == "sni.example"
SNIInputs == {"", CustomSNI}
EndpointV4Inputs == {EpEmpty, EpV4, EpV4BadPort}
EndpointV6Inputs == {EpEmpty, EpV6}

\* packets handed to AndroidTunDevice.WritePacket
Packets == {"p1", "p2"}
\* outcome of d.file.Write: "" for a nil error
FileWriteErrors == {"", "EBADF"}
\* what the PacketFlow sink does with a packet
SinkOutcomes == {"written", "failed"}

\* ------------------------------------------------------------ pure helpers
DigitChars == {"0", "1", "2", "3", "4", "5", "6", "7", "8", "9"}

DigitVal(c) ==
  CASE c = "0" -> 0 [] c = "1" -> 1 [] c = "2" -> 2 [] c = "3" -> 3
    [] c = "4" -> 4 [] c = "5" -> 5 [] c = "6" -> 6 [] c = "7" -> 7
    [] c = "8" -> 8 [] c = "9" -> 9

AllDigits(s) == \A i \in 1..Len(s) : s[i] \in DigitChars

RECURSIVE DigitsVal(_)
DigitsVal(s) ==
  IF s = <<>> THEN 0
  ELSE 10 * DigitsVal(SubSeq(s, 1, Len(s) - 1)) + DigitVal(s[Len(s)])

\* strconv.Atoi on the short strings of the model (no int overflow): an
\* optional sign followed by at least one decimal digit.
Atoi(s) ==
  LET signed == Len(s) > 0 /\ s[1] \in {"+", "-"}
      body == IF signed THEN Tail(s) ELSE s
  IN  IF body = <<>> \/ ~AllDigits(body)
      THEN [ok |-> FALSE, val |-> 0]
      ELSE [ok |-> TRUE,
            val |-> IF signed /\ s[1] = "-" THEN 0 - DigitsVal(body)
                    ELSE DigitsVal(body)]

\* index (1-based) of the first / last occurrence of c in s, 0 when absent
FirstIndex(s, c) ==
  IF \E i \in 1..Len(s) : s[i] = c
  THEN CHOOSE i \in 1..Len(s) : s[i] = c /\ \A j \in 1..(i - 1) : s[j] # c
  ELSE 0

LastIndex(s, c) ==
  IF \E i \in 1..Len(s) : s[i] = c
  THEN CHOOSE i \in 1..Len(s) : s[i] = c /\ \A j \in (i + 1)..Len(s) : s[j] # c
  ELSE 0

\* (mutation of parseEndpoint: the port after a closing bracket is ignored)
parseEndpoint_m(endpoint) ==
  IF Len(endpoint) > 0 /\ endpoint[1] = "["
  THEN LET closeBracket == FirstIndex(endpoint, "]")
           host == SubSeq(endpoint, 2, closeBracket - 1)
       IN  IF closeBracket = 0
           THEN [host |-> <<>>, port |-> 0,
                 err |-> "missing closing bracket for IPv6 address"]
           ELSE [host |-> host, port |-> DefaultPort, err |-> ""]
  ELSE LET lastColon == LastIndex(endpoint, ":")
       IN  IF lastColon # 0
           THEN LET p == Atoi(SubSeq(endpoint, lastColon + 1, Len(endpoint)))
                IN  IF ~p.ok
                    THEN [host |-> <<>>, port |-> 0, err |-> "invalid port"]
                    ELSE [host |-> SubSeq(endpoint, 1, lastColon - 1),
                          port |-> p.val, err |-> ""]
           ELSE [host |-> endpoint, port |-> DefaultPort, err |-> ""]

\* parseEndpoint of revision 1.  err = "" stands for a nil error.
parseEndpoint(endpoint) ==
  IF Len(endpoint) > 0 /\ endpoint[1] = "["
  THEN LET closeBracket == FirstIndex(endpoint, "]")
           host == SubSeq(endpoint, 2, closeBracket - 1)
       IN  IF closeBracket = 0
           THEN [host |-> <<>>, port |-> 0,
                 err |-> "missing closing bracket for IPv6 address"]
           ELSE IF closeBracket + 1 <= Len(endpoint)
                   /\ endpoint[closeBracket + 1] = ":"
                THEN LET p == Atoi(SubSeq(endpoint, closeBracket + 2,
                                          Len(endpoint)))
                     IN  IF ~p.ok
                         THEN [host |-> <<>>, port |-> 0,
                               err |-> "invalid port"]
                         ELSE [host |-> host, port |-> p.val, err |-> ""]
                ELSE [host |-> host, port |-> DefaultPort, err |-> ""]
  ELSE LET lastColon == LastIndex(endpoint, ":")
       IN  IF lastColon # 0
           THEN LET p == Atoi(SubSeq(endpoint, lastColon + 1, Len(endpoint)))
                IN  IF ~p.ok
                    THEN [host |-> <<>>, port |-> 0, err |-> "invalid port"]
                    ELSE [host |-> SubSeq(endpoint, 1, lastColon - 1),
                          port |-> p.val, err |-> ""]
           ELSE [host |-> endpoint, port |-> DefaultPort, err |-> ""]

\* the fields of s between the occurrences of sep, in order
Split(s, sep) ==
  LET seps == {i \in 1..Len(s) : s[i] = sep}
      n == Cardinality(seps)
      pos(k) == IF k = 0 THEN 0
                ELSE IF k = n + 1 THEN Len(s) + 1
                ELSE CHOOSE i \in seps :
                        Cardinality({j \in seps : j < i}) = k - 1
  IN  [k \in 1..(n + 1) |-> SubSeq(s, pos(k - 1) + 1, pos(k) - 1)]

\* dotted-quad IPv4 literal as net.ParseIP accepts it: four decimal fields
\* of one to three digits, each at most 255, without a leading zero.
IsIPv4(s) ==
  LET f == Split(s, ".")
  IN  /\ Len(f) = 4
      /\ \A i \in 1..4 :
            /\ Len(f[i]) \in 1..3
            /\ AllDigits(f[i])
            /\ DigitsVal(f[i]) <= 255
            /\ (Len(f[i]) > 1 => f[i][1] # "0")

\* the IPv6 literals that occur in the model's inputs
IsIPv6(s) == s \in {EpV6, EpProfileV6}

NilIP == <<>>

\* net.ParseIP: the address, or nil when the text is not an IP literal
ParseIP(s) == IF IsIPv4(s) \/ IsIPv6(s) THEN s ELSE NilIP

\* ------------------------------------------------------------------- state
VARIABLES
  rev,               \* which revision of the package the behaviour runs
  mu,                \* state.mu: TRUE while a StartTunnel call holds it
  running,           \* state.running
  cancel,            \* state.cancel: Nil, or the run whose context it cancels
  callback,          \* state.callback
  customSNI,
  customEndpoint,    \* revision 1
  customEndpointV4,  \* revision 2
  customEndpointV6,  \* revision 2
  useIPv6,           \* revision 2
  resetPc,           \* the ResetConnectionOptions call in progress, if any:
                     \* the last variable it has assigned ("idle": none)
  resetClean,        \* history: a ResetConnectionOptions call is in progress,
                     \* it replaced a customSNI other than the default, and
                     \* no setter has been called since it began
  resetQuiet,        \* history: ResetConnectionOptions has been called and
                     \* no setter has been called since the last such call
                     \* began
  start,             \* the StartTunnel call that holds state.mu, if any
  runs,              \* per run: its goroutines, context, adapter, observer
  result,            \* the last completed StartTunnel / StopTunnel call
  latest,            \* history: run made by the latest StartTunnel that got
                     \* past the already-running check (Nil if it failed)
  stoppedSince,      \* history: a StopTunnel returned since that StartTunnel
  lastRead,          \* history: the last ReadPacket call on an adapter
  lastInput,         \* history: the last InputPacket call
  service,           \* UsqueVpnService: its companion object's isRunning
  prefs              \* MainActivity: the SharedPreferences "UsqueVpnPrefs"

tunnelState == <<running, cancel, callback>>
options == <<customSNI, customEndpoint, customEndpointV4, customEndpointV6,
             useIPv6, resetPc, resetClean, resetQuiet>>
history == <<result, latest, stoppedSince>>
packets == <<lastRead, lastInput>>
app == <<service, prefs>>
vars == <<rev, mu, running, cancel, callback, customSNI, customEndpoint,
          customEndpointV4, customEndpointV6, useIPv6, resetPc, resetClean,
          resetQuiet, start, runs, result, latest, stoppedSince, lastRead,
          lastInput, service, prefs>>

\* no StartTunnel call in progress
IdleStart ==
  [pc |-> "idle", cb |-> Nil, flow |-> Nil, fd |-> 0, sni |-> "",
   profile |-> NoProfile,
   sniInReset |-> FALSE]  \* history: this call read customSNI while
                          \* resetClean, and that ResetConnectionOptions
                          \* call is still in progress and still clean

\* a run that has not been started yet
NoRun ==
  [task |-> "none",      \* background goroutine of StartTunnel
   delayed |-> "none",   \* its nested goroutine (delayed connected check)
   ctxDone |-> FALSE,    \* the run's context has been cancelled
   cancelCalls |-> 0,    \* invocations of the run's CancelFunc
   closeCalls |-> 0,     \* tunDevice.Close() calls on the run's adapter
   onConnected |-> 0,    \* callback.OnConnected() invocations
   onDisconnected |-> 0, \* callback.OnDisconnected() invocations
                         \* (callback.OnError has no call site in the
                         \* file, hence no counter)
   reason |-> "",        \* argument of the last OnDisconnected
   lastWrite |-> <<>>,   \* the last WritePacket call on the run's
                         \* adapter, if any: a sequence of at most one
   sawRunning |-> "none",\* what IsRunning() returned inside OnDisconnected
   resetAt |-> 0,        \* history: runs started so far when the exit path
                         \* reset state.running (kept until the callback ends)
   cb |-> Nil, flow |-> Nil, fd |-> 0, sni |-> "",
   ip |-> NilIP, port |-> 0]

NoResult ==
  [op |-> "none", ret |-> "", dev |-> FALSE, task |-> Nil, cancelled |-> Nil]

\* the preferences before anything was saved: every key reads as the
\* default loadSavedSettings passes to getString / getBoolean
NoPrefs ==
  [sni |-> DefaultSNI, v4 |-> EpEmpty, v6 |-> EpEmpty, useIPv6 |-> FALSE]

Init ==
  /\ rev \in Revisions
  /\ mu = FALSE
  /\ running = FALSE
  /\ cancel = Nil
  /\ callback = Nil
  /\ customSNI = DefaultSNI
  /\ customEndpoint = EpEmpty
  /\ customEndpointV4 = EpEmpty
  /\ customEndpointV6 = EpEmpty
  /\ useIPv6 = FALSE
  /\ resetPc = "idle"
  /\ resetClean = FALSE
  /\ resetQuiet = FALSE
  /\ start = IdleStart
  /\ runs = [r \in Runs |-> NoRun]
  /\ result = NoResult
  /\ latest = Nil
  /\ stoppedSince = FALSE
  /\ lastRead = <<>>
  /\ lastInput = <<>>
  /\ service = [isRunning |-> FALSE]
  /\ prefs = NoPrefs

\* ----------------------------------------------------------------- helpers
Spawned == {r \in Runs : runs[r].task # "none"}

\* runs whose background goroutine has not finished its exit path
Active == {r \in Runs : runs[r].task \notin {"none", "done"}}

NextRun == Cardinality(Spawned) + 1

\* IsRunning(): state.running read under state.mu
IsRunning == running

\* StartTunnel returns ret: the deferred Unlock runs, the call is over
StartReturn(ret, dev, task) ==
  /\ mu' = FALSE
  /\ start' = IdleStart
  /\ result' = [op |-> "StartTunnel", ret |-> ret, dev |-> dev,
                task |-> task, cancelled |-> Nil]

\* ------------------------------------------------------------ StartTunnel
\* (mutation of AlreadyRunning: the check is missing)
AlreadyRunning_m == FALSE

\* the check `if state.running` at the head of StartTunnel
AlreadyRunning == running

\* (mutation of StoredCancel: the assignment to state.cancel is missing)
StoredCancel_m(r) == cancel

\* state.cancel = cancel: the handle of the new run's context
StoredCancel(r) == r

\* SNI handed to api.PrepareTlsConfig
\* (mutation of ResolveSNI: the empty custom SNI is passed on as it is)
ResolveSNI_m(sni) == sni
ResolveSNI(sni) == IF sni = "" THEN ConnectSNI ELSE sni

\* (mutation of TunDeviceOk: the nil check on os.NewFile is missing)
TunDeviceOk_m(fd) == TRUE

\* newAndroidTunDevice: os.NewFile yields nil for an invalid descriptor
TunDeviceOk(fd) == fd >= 0

\* (mutation of ResolveEndpoint, revision 2: with IPv6 preferred and no IPv6
\* override, the IPv4 override is used before the profile's IPv6 endpoint)
ResolveEndpoint_m(profile) ==
  LET endpointIP ==
        IF useIPv6
        THEN IF customEndpointV6 # EpEmpty THEN customEndpointV6
             ELSE IF customEndpointV4 # EpEmpty THEN customEndpointV4
             ELSE profile.v6
        ELSE IF customEndpointV4 # EpEmpty THEN customEndpointV4
             ELSE profile.v4
  IN  [ip |-> ParseIP(endpointIP), port |-> DefaultPort, err |-> ""]

\* endpoint selection of StartTunnel; err = "" stands for success
ResolveEndpoint(profile) ==
  IF rev = 1
  THEN IF customEndpoint # EpEmpty
       THEN LET p == parseEndpoint(customEndpoint)
            IN  IF p.err # ""
                THEN [ip |-> NilIP, port |-> 0, err |-> ErrCustomEndpoint]
                ELSE [ip |-> ParseIP(p.host), port |-> p.port, err |-> ""]
       ELSE [ip |-> ParseIP(profile.v4), port |-> DefaultPort, err |-> ""]
  ELSE LET endpointIP ==
             IF useIPv6
             THEN IF customEndpointV6 # EpEmpty THEN customEndpointV6
                  ELSE profile.v6
             ELSE IF customEndpointV4 # EpEmpty THEN customEndpointV4
                  ELSE profile.v4
       IN  [ip |-> ParseIP(endpointIP), port |-> DefaultPort, err |-> ""]

\* (mutation of NewRun: the endpoint and SNI resolved for the previous run
\* are kept and used again)
NewRun_m(s, ep) ==
  [NoRun EXCEPT !.task = "maintain", !.delayed = "sleep",
                !.cb = s.cb, !.flow = s.flow, !.fd = s.fd,
                !.sni = IF cancel # Nil THEN runs[cancel].sni ELSE s.sni,
                !.ip = IF cancel # Nil THEN runs[cancel].ip ELSE ep.ip,
                !.port = ep.port]

\* the goroutines and adapter of a freshly started run
NewRun(s, ep) ==
  [NoRun EXCEPT !.task = "maintain", !.delayed = "sleep",
                !.cb = s.cb, !.flow = s.flow, !.fd = s.fd, !.sni = s.sni,
                !.ip = ep.ip, !.port = ep.port]

\* StartTunnel, entry: take state.mu and test state.running.  A call that
\* finds the tunnel running returns at once (lock and deferred unlock in
\* one step); any other call keeps the lock until it returns.
StartTunnel_Enter(cb, flow, fd) ==
  /\ ~mu
  /\ start.pc = "idle"
  /\ running \/ Cardinality(Spawned) < MaxRuns
  /\ IF AlreadyRunning
     THEN /\ result' = [op |-> "StartTunnel", ret |-> ErrAlreadyRunning,
                        dev |-> FALSE, task |-> Nil, cancelled |-> Nil]
          /\ UNCHANGED <<mu, start, latest, stoppedSince>>
     ELSE /\ mu' = TRUE
          /\ start' = [IdleStart EXCEPT !.pc = "load", !.cb = cb,
                                        !.flow = flow, !.fd = fd]
          /\ latest' = Nil
          /\ stoppedSince' = FALSE
          /\ UNCHANGED result
  /\ UNCHANGED <<rev, app, packets, tunnelState, options, runs>>

\* StartTunnel, profile and key material: config.LoadConfig, the two keys,
\* the certificate, the read of customSNI and api.PrepareTlsConfig.
StartTunnel_Load(failed, profile) ==
  /\ start.pc = "load"
  /\ IF failed # "none"
     THEN StartReturn(LoadError(failed), FALSE, Nil)
     ELSE /\ start' = [start EXCEPT !.pc = "resolve",
                                    !.sni = ResolveSNI(customSNI),
                                    !.profile = profile,
                                    !.sniInReset = resetClean]
          /\ UNCHANGED <<mu, result>>
  /\ UNCHANGED <<rev, app, packets, tunnelState, options, runs, latest,
                 stoppedSince>>

\* StartTunnel, the rest: adapter, endpoint, and on success the new
\* context, the three assignments to state and the `go` statement.
StartTunnel_Resolve ==
  /\ start.pc = "resolve"
  /\ LET ep == ResolveEndpoint(start.profile)
         r == NextRun
     IN  IF ~TunDeviceOk(start.fd)
         THEN /\ StartReturn(ErrTunDevice, FALSE, Nil)
              /\ UNCHANGED <<tunnelState, runs, latest>>
         ELSE IF ep.err # ""
         THEN /\ StartReturn(ep.err, TRUE, Nil)
              /\ UNCHANGED <<tunnelState, runs, latest>>
         ELSE /\ cancel' = StoredCancel(r)
              /\ running' = TRUE
              /\ callback' = start.cb
              /\ runs' = [runs EXCEPT ![r] = NewRun(start, ep)]
              /\ latest' = r
              /\ StartReturn("", TRUE, r)
  /\ UNCHANGED <<rev, app, packets, options, stoppedSince>>

\* ------------------------------------------------------------- StopTunnel
\* (mutation of NotRunning: the check is missing)
NotRunning_m == FALSE

\* the check `if !state.running` at the head of StopTunnel
NotRunning == ~running

\* (mutation of InvokeCancel: state.cancel() is not called)
InvokeCancel_m(c) == runs

\* state.cancel(): cancels the context of the run the handle belongs to
InvokeCancel(c) ==
  IF c # Nil
  THEN [runs EXCEPT ![c].cancelCalls = @ + 1, ![c].ctxDone = TRUE]
  ELSE runs

\* (mutation of StopTunnel: the call itself notifies the observer)
StopTunnel_m ==
  /\ ~mu
  /\ IF NotRunning
     THEN /\ result' = [op |-> "StopTunnel", ret |-> "", dev |-> FALSE,
                        task |-> Nil, cancelled |-> Nil]
          /\ UNCHANGED <<tunnelState, runs>>
     ELSE /\ runs' = [InvokeCancel(cancel) EXCEPT
                        ![cancel].onDisconnected = @ + 1,
                        ![cancel].reason = ReasonTunnelClosed]
          /\ running' = FALSE
          /\ result' = [op |-> "StopTunnel", ret |-> "", dev |-> FALSE,
                        task |-> Nil, cancelled |-> cancel]
          /\ UNCHANGED <<cancel, callback>>
  /\ stoppedSince' = TRUE
  /\ UNCHANGED <<rev, app, packets, mu, options, start, latest>>

\* StopTunnel: under the lock, cancel the stored context if running
StopTunnel ==
  /\ ~mu
  /\ IF NotRunning
     THEN /\ result' = [op |-> "StopTunnel", ret |-> "", dev |-> FALSE,
                        task |-> Nil, cancelled |-> Nil]
          /\ UNCHANGED <<tunnelState, runs>>
     ELSE /\ runs' = InvokeCancel(cancel)
          /\ running' = FALSE
          /\ result' = [op |-> "StopTunnel", ret |-> "", dev |-> FALSE,
                        task |-> Nil, cancelled |-> cancel]
          /\ UNCHANGED <<cancel, callback>>
  /\ stoppedSince' = TRUE
  /\ UNCHANGED <<rev, app, packets, mu, options, start, latest>>

\* (mutation of MaintainTunnel_Return: the routine ignores cancellation and
\* returns only on a failure of its own, before any StopTunnel)
MaintainTunnel_Return_m(r) ==
  /\ runs[r].task = "maintain"
  /\ ~runs[r].ctxDone
  /\ runs' = [runs EXCEPT ![r].task = "exited"]
  /\ UNCHANGED <<rev, app, packets, mu, tunnelState, options, start, history>>

\* ------------------------------------------- background goroutine of a run
\* api.MaintainTunnel returns: because the context was cancelled, or by
\* itself (network failure, revoked descriptor).
MaintainTunnel_Return(r) ==
  /\ runs[r].task = "maintain"
  /\ runs' = [runs EXCEPT ![r].task = "exited"]
  /\ UNCHANGED <<rev, app, packets, mu, tunnelState, options, start, history>>

\* (mutation of Exit_Close: the adapter is left open)
Exit_Close_m(r) ==
  /\ runs[r].task = "exited"
  /\ runs' = [runs EXCEPT ![r].task = "closed"]
  /\ UNCHANGED <<rev, app, packets, mu, tunnelState, options, start, history>>

\* tunDevice.Close()
Exit_Close(r) ==
  /\ runs[r].task = "exited"
  /\ runs' = [runs EXCEPT ![r].task = "closed", ![r].closeCalls = @ + 1]
  /\ UNCHANGED <<rev, app, packets, mu, tunnelState, options, start, history>>

\* (mutation of Exit_Reset: state.mu.Unlock() is missing, so the callback
\* that follows is invoked with the lock held)
Exit_Reset_locked_m(r) ==
  /\ runs[r].task = "closed"
  /\ ~mu
  /\ mu' = TRUE
  /\ running' = FALSE
  /\ runs' = [runs EXCEPT ![r].task = "reset",
                          ![r].resetAt = Cardinality(Spawned)]
  /\ UNCHANGED <<rev, app, packets, cancel, callback, options, start, history>>

\* (mutation of Exit_Reset: state.running is left as it is)
Exit_Reset_m(r) ==
  /\ runs[r].task = "closed"
  /\ ~mu
  /\ runs' = [runs EXCEPT ![r].task = "reset",
                          ![r].resetAt = Cardinality(Spawned)]
  /\ UNCHANGED <<rev, app, packets, mu, tunnelState, options, start, history>>

\* state.mu.Lock(); state.running = false; state.mu.Unlock()
Exit_Reset(r) ==
  /\ runs[r].task = "closed"
  /\ ~mu
  /\ running' = FALSE
  /\ runs' = [runs EXCEPT ![r].task = "reset",
                          ![r].resetAt = Cardinality(Spawned)]
  /\ UNCHANGED <<rev, app, packets, mu, cancel, callback, options, start,
                 history>>

\* (mutation of Exit_Notify: the goroutine calls api.MaintainTunnel again)
Exit_Notify_m(r) ==
  /\ runs[r].task = "reset"
  /\ runs' = [runs EXCEPT ![r].task = "maintain", ![r].resetAt = 0]
  /\ UNCHANGED <<rev, app, packets, mu, tunnelState, options, start, history>>

\* if callback != nil { callback.OnDisconnected("Tunnel closed") }
Exit_Notify(r) ==
  /\ runs[r].task = "reset"
  /\ runs' = IF runs[r].cb # Nil
             THEN [runs EXCEPT ![r].task = "incb", ![r].onDisconnected = @ + 1,
                               ![r].reason = ReasonTunnelClosed]
             ELSE [runs EXCEPT ![r].task = "done", ![r].resetAt = 0]
  /\ UNCHANGED <<rev, app, packets, mu, tunnelState, options, start, history>>

\* the observer, inside OnDisconnected, calls IsRunning() and returns
OnDisconnected_IsRunning(r) ==
  /\ runs[r].task = "incb"
  /\ ~mu
  /\ runs' = [runs EXCEPT ![r].task = "done", ![r].resetAt = 0,
                          ![r].sawRunning =
                             IF IsRunning THEN "true" ELSE "false"]
  /\ UNCHANGED <<rev, app, packets, mu, tunnelState, options, start, history>>

\* the observer, inside OnDisconnected, calls StopTunnel() and returns (the
\* callback of UsqueVpnService does so through disconnect())
OnDisconnected_StopTunnel(r) ==
  /\ runs[r].task = "incb"
  /\ ~mu
  /\ LET stopped == IF NotRunning THEN runs ELSE InvokeCancel(cancel)
     IN  runs' = [stopped EXCEPT ![r].task = "done", ![r].resetAt = 0]
  /\ running' = FALSE
  /\ result' = [op |-> "StopTunnel", ret |-> "", dev |-> FALSE,
                task |-> Nil,
                cancelled |-> IF NotRunning THEN Nil ELSE cancel]
  /\ stoppedSince' = TRUE
  /\ UNCHANGED <<rev, app, packets, mu, cancel, callback, options, start,
                 latest>>

\* (mutation of Delayed_Check: OnConnected follows the delay unconditionally)
Delayed_Check_m(r) ==
  /\ runs[r].delayed = "sleep"
  /\ ~mu
  /\ runs' = [runs EXCEPT ![r].delayed =
                IF runs[r].cb # Nil THEN "notify" ELSE "done"]
  /\ UNCHANGED <<rev, app, packets, mu, tunnelState, options, start, history>>

\* the nested goroutine after time.Sleep: read state.running under the lock
Delayed_Check(r) ==
  /\ runs[r].delayed = "sleep"
  /\ ~mu
  /\ runs' = [runs EXCEPT ![r].delayed =
                IF running /\ runs[r].cb # Nil THEN "notify" ELSE "done"]
  /\ UNCHANGED <<rev, app, packets, mu, tunnelState, options, start, history>>

\* (mutation of Delayed_Notify: the check is repeated after the callback)
Delayed_Notify_m(r) ==
  /\ runs[r].delayed = "notify"
  /\ runs' = [runs EXCEPT ![r].delayed = "sleep", ![r].onConnected = @ + 1]
  /\ UNCHANGED <<rev, app, packets, mu, tunnelState, options, start, history>>

\* callback.OnConnected()
Delayed_Notify(r) ==
  /\ runs[r].delayed = "notify"
  /\ runs' = [runs EXCEPT ![r].delayed = "done", ![r].onConnected = @ + 1]
  /\ UNCHANGED <<rev, app, packets, mu, tunnelState, options, start, history>>

\* ------------------------------------------------------ connection options
SetEndpoint(endpoint) ==
  /\ rev = 1
  /\ customEndpoint' = endpoint
  /\ UNCHANGED <<rev, app, packets, mu, tunnelState, customSNI,
                 customEndpointV4, customEndpointV6, useIPv6, resetPc,
                 resetClean, resetQuiet, start, runs, history>>

\* SetSNI, SetEndpointV4, SetEndpointV6, SetUseIPv6 (revision 2): one
\* unlocked assignment each.  SetterCalled is the bookkeeping of the history
\* variables: a ResetConnectionOptions call in progress is no longer clean.
SetterCalled ==
  /\ resetClean' = FALSE
  /\ resetQuiet' = FALSE
  /\ start' = [start EXCEPT !.sniInReset = FALSE]

SetSNI(sni) ==
  /\ customSNI' = sni
  /\ SetterCalled
  /\ UNCHANGED <<rev, app, packets, mu, tunnelState, customEndpoint,
                 customEndpointV4,
                 customEndpointV6, useIPv6, resetPc, runs, history>>

SetEndpointV4(endpoint) ==
  /\ rev = 2
  /\ customEndpointV4' = endpoint
  /\ SetterCalled
  /\ UNCHANGED <<rev, app, packets, mu, tunnelState, customSNI, customEndpoint,
                 customEndpointV6, useIPv6, resetPc, runs, history>>

SetEndpointV6(endpoint) ==
  /\ rev = 2
  /\ customEndpointV6' = endpoint
  /\ SetterCalled
  /\ UNCHANGED <<rev, app, packets, mu, tunnelState, customSNI, customEndpoint,
                 customEndpointV4, useIPv6, resetPc, runs, history>>

SetUseIPv6(use) ==
  /\ rev = 2
  /\ useIPv6' = use
  /\ SetterCalled
  /\ UNCHANGED <<rev, app, packets, mu, tunnelState, customSNI, customEndpoint,
                 customEndpointV4, customEndpointV6, resetPc, runs, history>>

\* ResetConnectionOptions (revision 2): four assignments in program order,
\* with no lock; another thread can run between any two of them.
ResetConnectionOptions_SNI ==
  /\ rev = 2
  /\ resetPc = "idle"
  /\ customSNI' = DefaultSNI
  /\ resetPc' = "sni"
  /\ resetClean' = (customSNI # DefaultSNI)
  /\ resetQuiet' = TRUE
  /\ UNCHANGED <<rev, app, packets, mu, tunnelState, customEndpoint,
                 customEndpointV4,
                 customEndpointV6, useIPv6, start, runs, history>>

ResetConnectionOptions_EndpointV4 ==
  /\ resetPc = "sni"
  /\ customEndpointV4' = EpEmpty
  /\ resetPc' = "v4"
  /\ UNCHANGED <<rev, app, packets, mu, tunnelState, customSNI, customEndpoint,
                 customEndpointV6, useIPv6, resetClean, resetQuiet, start,
                 runs, history>>

\* (mutation of ResetConnectionOptions_EndpointV6: the IPv6 override is
\* left as it is)
ResetConnectionOptions_EndpointV6_m ==
  /\ resetPc = "v4"
  /\ resetPc' = "v6"
  /\ UNCHANGED <<rev, app, packets, mu, tunnelState, customSNI, customEndpoint,
                 customEndpointV4, customEndpointV6, useIPv6, resetClean,
                 resetQuiet, start, runs, history>>
ResetConnectionOptions_EndpointV6 ==
  /\ resetPc = "v4"
  /\ customEndpointV6' = EpEmpty
  /\ resetPc' = "v6"
  /\ UNCHANGED <<rev, app, packets, mu, tunnelState, customSNI, customEndpoint,
                 customEndpointV4, useIPv6, resetClean, resetQuiet, start,
                 runs, history>>

ResetConnectionOptions_UseIPv6 ==
  /\ resetPc = "v6"
  /\ useIPv6' = FALSE
  /\ resetPc' = "idle"
  /\ resetClean' = FALSE
  /\ start' = [start EXCEPT !.sniInReset = FALSE]
  /\ UNCHANGED <<rev, app, packets, mu, tunnelState, customSNI, customEndpoint,
                 customEndpointV4, customEndpointV6, resetQuiet, runs,
                 history>>

\* GetSNI, GetEndpointV4, GetEndpointV6, GetUseIPv6 (revision 2) as functions
\* of the options and, for the endpoints, of what config.LoadConfig finds:
\* the override when it is not empty, else the endpoint of the profile, else
\* the empty string when the profile cannot be loaded.
GetSNI == customSNI
GetEndpointV4(loadOk, profile) ==
  IF customEndpointV4 # EpEmpty THEN customEndpointV4
  ELSE IF loadOk THEN profile.v4 ELSE EpEmpty
GetEndpointV6(loadOk, profile) ==
  IF customEndpointV6 # EpEmpty THEN customEndpointV6
  ELSE IF loadOk THEN profile.v6 ELSE EpEmpty
GetUseIPv6 == useIPv6

\* a ResetConnectionOptions call has returned and no setter has been called
\* since it began
ResetReturned == resetQuiet /\ resetPc = "idle"

\* The options StartTunnel is about to read that the ResetConnectionOptions
\* call in progress has not assigned yet although they differ from their
\* defaults.
ResetPending ==
  CASE resetPc = "sni" -> {"v4", "v6", "useIPv6"}
    [] resetPc = "v4" -> {"v6", "useIPv6"}
    [] resetPc = "v6" -> {"useIPv6"}
    [] OTHER -> {}
StaleOptionRead ==
  \/ "useIPv6" \in ResetPending /\ useIPv6
  \/ "v4" \in ResetPending /\ ~useIPv6 /\ customEndpointV4 # EpEmpty
  \/ "v6" \in ResetPending /\ useIPv6 /\ customEndpointV6 # EpEmpty

\* The behaviours that vary the connection options (revision 2): the
\* setters and ResetConnectionOptions at any time, around StartTunnel and
\* StopTunnel calls; the runs' goroutines are not scheduled.
OptInit == Init /\ rev = 2
Opt_StartTunnel(cb, flow) ==
  /\ Cardinality(Spawned) < MaxOptRuns
  /\ StartTunnel_Enter(cb, flow, 3)
OptNext ==
  \/ \E cb \in Callbacks, flow \in PacketFlows : Opt_StartTunnel(cb, flow)
  \/ \E profile \in OptProfiles : StartTunnel_Load("none", profile)
  \/ StartTunnel_Resolve
  \/ StopTunnel
  \/ \E sni \in SNIInputs : SetSNI(sni)
  \/ \E endpoint \in EndpointV4Inputs : SetEndpointV4(endpoint)
  \/ \E endpoint \in EndpointV6Inputs : SetEndpointV6(endpoint)
  \/ \E use \in BOOLEAN : SetUseIPv6(use)
  \/ ResetConnectionOptions_SNI
  \/ ResetConnectionOptions_EndpointV4
  \/ ResetConnectionOptions_EndpointV6
  \/ ResetConnectionOptions_UseIPv6

OptSpec == OptInit /\ [][OptNext]_vars

\* The behaviours in which the options change between and during runs
\* (revision 2): every setter with a custom value, ResetConnectionOptions,
\* and tunnels started and stopped one after the other against a
\* registered profile.
ReuseInit == Init /\ rev = 2
Reuse_StartTunnel ==
  /\ Cardinality(Spawned) < MaxReuseRuns
  /\ StartTunnel_Enter(1, 1, 3)
ReuseNext ==
  \/ Reuse_StartTunnel
  \/ \E profile \in Profiles : StartTunnel_Load("none", profile)
  \/ StartTunnel_Resolve
  \/ StopTunnel
  \/ SetSNI(CustomSNI)
  \/ SetEndpointV4(EpV4)
  \/ SetEndpointV6(EpV6)
  \/ \E use \in BOOLEAN : SetUseIPv6(use)
  \/ ResetConnectionOptions_SNI
  \/ ResetConnectionOptions_EndpointV4
  \/ ResetConnectionOptions_EndpointV6
  \/ ResetConnectionOptions_UseIPv6

ReuseSpec == ReuseInit /\ [][ReuseNext]_vars

\* What the comments of parseEndpoint and SetEndpoint (revision 1) document
\* for the endpoint strings of ParseInputs: the host and port, or an error.
DocumentedParse(endpoint) ==
  CASE endpoint = EpV4 -> [host |-> EpV4, port |-> 443, ok |-> TRUE]
    [] endpoint = EpV4Port -> [host |-> EpV4, port |-> 80, ok |-> TRUE]
    [] endpoint = EpV6Bracket -> [host |-> EpV6, port |-> 443, ok |-> TRUE]
    [] endpoint = EpV6BracketPort ->
         [host |-> EpV6, port |-> 80, ok |-> TRUE]
    [] endpoint \in {EpV4BadPort, EpV4NoPort, EpV6BracketBadPort,
                     EpV6NoClose} ->
         [host |-> <<>>, port |-> 0, ok |-> FALSE]

\* The behaviours that exercise the custom endpoint of revision 1:
\* SetEndpoint with every string of ParseInputs, and tunnels started and
\* stopped.
ParseInit == Init /\ rev = 1
Parse_StartTunnel(cb, flow) ==
  /\ Cardinality(Spawned) < MaxParseRuns
  /\ StartTunnel_Enter(cb, flow, 3)
ParseNext ==
  \/ \E cb \in Callbacks, flow \in PacketFlows : Parse_StartTunnel(cb, flow)
  \/ \E profile \in Profiles : StartTunnel_Load("none", profile)
  \/ StartTunnel_Resolve
  \/ StopTunnel
  \/ \E endpoint \in ParseInputs : SetEndpoint(endpoint)

ParseSpec == ParseInit /\ [][ParseNext]_vars

\* ----------------------------------------------------------------- adapter
\* StartTunnelWithFd: StartTunnel with mtu 1280 and no PacketFlow.
StartTunnelWithFd(fd, cb) == StartTunnel_Enter(cb, Nil, fd)

\* AndroidTunDevice.WritePacket as a function of the adapter's outputFn, the
\* packet, what the sink does with it and what d.file.Write would return.
\* The value is the record of the call: what reached the sink, what reached
\* the raw handle, and the error returned ("" for nil).
WritePacket_m(outputFn, pkt, sinkDid, fileErr) ==
  IF outputFn # Nil
  THEN [pkt |-> pkt, sink |-> pkt, sinkDid |-> sinkDid, file |-> pkt,
        ret |-> fileErr]
  ELSE [pkt |-> pkt, sink |-> "none", sinkDid |-> "none", file |-> pkt,
        ret |-> fileErr]
WritePacket(outputFn, pkt, sinkDid, fileErr) ==
  IF outputFn # Nil
  THEN [pkt |-> pkt, sink |-> pkt, sinkDid |-> sinkDid, file |-> "none",
        ret |-> ""]
  ELSE [pkt |-> pkt, sink |-> "none", sinkDid |-> "none", file |-> pkt,
        ret |-> fileErr]

\* api.MaintainTunnel hands a packet from the tunnel to the run's adapter.
MaintainTunnel_WritePacket(r, pkt, sinkDid, fileErr) ==
  /\ runs[r].task = "maintain"
  /\ runs' = [runs EXCEPT ![r].lastWrite =
                <<WritePacket(runs[r].flow, pkt, sinkDid, fileErr)>>]
  /\ UNCHANGED <<rev, app, packets, mu, tunnelState, options, start, history>>

\* os.ErrClosed: what Read and Write of an *os.File return after its Close
ErrClosed == "file already closed"
\* outcome of d.file.Read on an open handle: a length and "" for a nil error
ReadLens == {1, 2}
FileReadErrors == {"", "EIO"}

\* the adapter's handle has been closed: tunDevice.Close() calls d.file.Close()
FileClosed(r) == runs[r].closeCalls > 0

\* AndroidTunDevice.ReadPacket as a function of what d.file.Read returns
ReadPacket(n, fileErr) ==
  IF fileErr # "" THEN [n |-> 0, err |-> fileErr] ELSE [n |-> n, err |-> ""]

\* A forwarding goroutine reads a packet from the run's adapter, before or
\* after the exit path has closed it.
Adapter_ReadPacket(r, n, fileErr) ==
  /\ runs[r].task # "none"
  /\ lastRead' =
        <<[run |-> r] @@ (IF FileClosed(r) THEN ReadPacket(0, ErrClosed)
                          ELSE ReadPacket(n, fileErr))>>
  /\ UNCHANGED <<rev, app, lastInput, mu, tunnelState, options, start, runs,
                 history>>

\* A forwarding goroutine writes a packet to the run's adapter after the
\* exit path has closed it: d.file.Write would return os.ErrClosed.
Closed_WritePacket(r, pkt, sinkDid) ==
  /\ FileClosed(r)
  /\ runs' = [runs EXCEPT ![r].lastWrite =
                <<WritePacket(runs[r].flow, pkt, sinkDid, ErrClosed)>>]
  /\ UNCHANGED <<rev, app, packets, mu, tunnelState, options, start, history>>

\* state.inputChan: a field of tunnelState that no function assigns
inputChan == Nil

\* InputPacket: reads state.inputChan under state.mu, then offers the packet
\* to it without blocking (select with a default branch) when it is not nil.
InputPacket(data) ==
  /\ ~mu
  /\ \E delivered \in (IF inputChan = Nil THEN {FALSE} ELSE BOOLEAN) :
        lastInput' = <<[pkt |-> data, delivered |-> delivered]>>
  /\ UNCHANGED <<rev, app, lastRead, mu, tunnelState, options, start, runs,
                 history>>

\* The behaviours that exercise the adapter (revision 2): runs started with
\* a PacketFlow (StartTunnel) or without one (StartTunnelWithFd), packets
\* written and read through the adapter, StopTunnel and the exit path.
DevInit == Init /\ rev = 2
Dev_StartTunnel(cb, flow) ==
  /\ Cardinality(Spawned) < MaxDevRuns
  /\ StartTunnel_Enter(cb, flow, 3)
Dev_StartTunnelWithFd(cb) ==
  /\ Cardinality(Spawned) < MaxDevRuns
  /\ StartTunnelWithFd(3, cb)
DevNext ==
  \/ \E cb \in Callbacks, flow \in PacketFlows : Dev_StartTunnel(cb, flow)
  \/ \E cb \in Callbacks : Dev_StartTunnelWithFd(cb)
  \/ \E profile \in Profiles : StartTunnel_Load("none", profile)
  \/ StartTunnel_Resolve
  \/ \E r \in Runs, pkt \in Packets, sinkDid \in SinkOutcomes,
        fileErr \in FileWriteErrors :
        MaintainTunnel_WritePacket(r, pkt, sinkDid, fileErr)
  \/ \E r \in Runs, pkt \in Packets, sinkDid \in SinkOutcomes :
        Closed_WritePacket(r, pkt, sinkDid)
  \/ \E r \in Runs, n \in ReadLens, fileErr \in FileReadErrors :
        Adapter_ReadPacket(r, n, fileErr)
  \/ StopTunnel
  \/ \E r \in Runs : MaintainTunnel_Return(r)
  \/ \E r \in Runs : Exit_Close(r)
  \/ \E r \in Runs : Exit_Reset(r)
  \/ \E r \in Runs : Exit_Notify(r)

DevSpec == DevInit /\ [][DevNext]_vars

\* The behaviours in which the host feeds packets in with InputPacket
\* (revision 2) while tunnels are started, stopped and torn down.
InputInit == Init /\ rev = 2
Input_StartTunnel(cb, flow) ==
  /\ Cardinality(Spawned) < MaxInputRuns
  /\ StartTunnel_Enter(cb, flow, 3)
InputNext ==
  \/ \E cb \in Callbacks, flow \in PacketFlows : Input_StartTunnel(cb, flow)
  \/ \E profile \in Profiles : StartTunnel_Load("none", profile)
  \/ StartTunnel_Resolve
  \/ \E data \in Packets : InputPacket(data)
  \/ StopTunnel
  \/ \E r \in Runs : MaintainTunnel_Return(r)
  \/ \E r \in Runs : Exit_Close(r)
  \/ \E r \in Runs : Exit_Reset(r)
  \/ \E r \in Runs : Exit_Notify(r)

InputSpec == InputInit /\ [][InputNext]_vars

\* ------------------------------------------------------- abnormal failure
\* api.MaintainTunnel panics instead of returning.  The goroutine of
\* StartTunnel has no deferred recover, so the panic unwinds past its root
\* and the Go runtime terminates the process: the exit path does not run.
MaintainTunnel_Panic(r) ==
  /\ runs[r].task = "maintain"
  /\ runs' = [runs EXCEPT ![r].task = "panicked"]
  /\ UNCHANGED <<rev, app, packets, mu, tunnelState, options, start, history>>

\* the host process has been terminated by a panic no goroutine recovered
HostTerminated == \E r \in Runs : runs[r].task = "panicked"

\* The behaviours in which the transport-maintenance routine can fail
\* abnormally (revision 2).  Nothing runs in a terminated process.
PanicInit == Init /\ rev = 2
Panic_StartTunnel(cb, flow) ==
  /\ ~HostTerminated
  /\ Cardinality(Spawned) < MaxPanicRuns
  /\ StartTunnel_Enter(cb, flow, 3)
Panic_StartTunnel_Load(profile) ==
  ~HostTerminated /\ StartTunnel_Load("none", profile)
Panic_StartTunnel_Resolve == ~HostTerminated /\ StartTunnel_Resolve
Panic_StopTunnel == ~HostTerminated /\ StopTunnel
Panic_MaintainTunnel(r) ==
  ~HostTerminated /\ (MaintainTunnel_Return(r) \/ MaintainTunnel_Panic(r))
Panic_ExitPath(r) ==
  ~HostTerminated /\ (Exit_Close(r) \/ Exit_Reset(r) \/ Exit_Notify(r))
PanicNext ==
  \/ \E cb \in Callbacks, flow \in PacketFlows : Panic_StartTunnel(cb, flow)
  \/ \E profile \in Profiles : Panic_StartTunnel_Load(profile)
  \/ Panic_StartTunnel_Resolve
  \/ Panic_StopTunnel
  \/ \E r \in Runs : Panic_MaintainTunnel(r)
  \/ \E r \in Runs : Panic_ExitPath(r)

PanicSpec == PanicInit /\ [][PanicNext]_vars

\* --------------------------------------------------------------- behaviour
Next ==
  \/ \E cb \in Callbacks, flow \in PacketFlows, fd \in TunFds :
        StartTunnel_Enter(cb, flow, fd)
  \/ \E failed \in LoadSteps \cup {"none"}, profile \in Profiles :
        StartTunnel_Load(failed, profile)
  \/ StartTunnel_Resolve
  \/ StopTunnel
  \/ \E r \in Runs : MaintainTunnel_Return(r)
  \/ \E r \in Runs : Exit_Close(r)
  \/ \E r \in Runs : Exit_Reset(r)
  \/ \E r \in Runs : Exit_Notify(r)
  \/ \E r \in Runs : OnDisconnected_IsRunning(r)
  \/ \E r \in Runs : Delayed_Check(r)
  \/ \E r \in Runs : Delayed_Notify(r)
  \/ \E endpoint \in EndpointInputs : SetEndpoint(endpoint)

Spec == Init /\ [][Next]_vars

\* The stop-to-idle behaviours: revision 2, every run started with an
\* observer, StartTunnel and StopTunnel calls at any time, and each run's
\* exit path; the delayed OnConnected check and what the observer does inside
\* OnDisconnected are left out.
Observers == Callbacks \ {Nil}
StartTunnel_Proceed ==
  \/ \E failed \in LoadSteps \cup {"none"}, profile \in Profiles :
        StartTunnel_Load(failed, profile)
  \/ StartTunnel_Resolve
ExitPathStep(r) ==
  \/ runs[r].ctxDone /\ MaintainTunnel_Return(r)
  \/ Exit_Close(r)
  \/ Exit_Reset(r)
  \/ Exit_Notify(r)
FairInit == Init /\ rev = 2
FairNext ==
  \/ \E cb \in Observers, flow \in PacketFlows, fd \in TunFds :
        StartTunnel_Enter(cb, flow, fd)
  \/ StartTunnel_Proceed
  \/ StopTunnel
  \/ \E r \in Runs : MaintainTunnel_Return(r)
  \/ \E r \in Runs : Exit_Close(r)
  \/ \E r \in Runs : Exit_Reset(r)
  \/ \E r \in Runs : Exit_Notify(r)

\* The scheduling the liveness claims rely on:
\*  - a StartTunnel call in progress runs on to its return (straight-line
\*    code, so the lock it holds is released);
\*  - api.MaintainTunnel returns once the run's context is cancelled (the
\*    assumption the claim makes about the transport routine);
\*  - the exit path's goroutine keeps being scheduled, and its Lock() is
\*    granted although StartTunnel calls keep taking the lock: sync.Mutex
\*    hands the lock to a waiter that has been starved (strong fairness).
Fairness ==
  /\ WF_vars(StartTunnel_Proceed)
  /\ \A r \in Runs : SF_vars(ExitPathStep(r))

FairSpec == FairInit /\ [][FairNext]_vars /\ Fairness

\* The behaviours in which the observer re-enters the package from inside
\* OnDisconnected (revision 2): it calls IsRunning or StopTunnel before it
\* returns, while another thread starts tunnels.  A run ends when
\* api.MaintainTunnel returns by itself or when an observer stops it.
OnDisconnected_Return(r) ==
  OnDisconnected_IsRunning(r) \/ OnDisconnected_StopTunnel(r)
ReentryInit == Init /\ rev = 2
Reentry_StartTunnel(cb, flow) ==
  /\ Cardinality(Spawned) < MaxReentryRuns
  /\ StartTunnel_Enter(cb, flow, 3)
ReentryNext ==
  \/ \E cb \in Observers, flow \in PacketFlows : Reentry_StartTunnel(cb, flow)
  \/ \E profile \in Profiles : StartTunnel_Load("none", profile)
  \/ StartTunnel_Resolve
  \/ \E r \in Runs : MaintainTunnel_Return(r)
  \/ \E r \in Runs : Exit_Close(r)
  \/ \E r \in Runs : Exit_Reset(r)
  \/ \E r \in Runs : Exit_Notify(r)
  \/ \E r \in Runs : OnDisconnected_IsRunning(r)
  \/ \E r \in Runs : OnDisconnected_StopTunnel(r)
  \/ \E r \in Runs : Delayed_Check(r)
  \/ \E r \in Runs : Delayed_Notify(r)

\* The scheduling the claim about re-entrant callbacks relies on: a
\* StartTunnel call in progress runs on to its return, and the Lock() of
\* the call the observer makes is granted although StartTunnel calls keep
\* taking the lock (sync.Mutex hands the lock to a starved waiter).
ReentryFairness ==
  /\ WF_vars(StartTunnel_Proceed)
  /\ \A r \in Runs : SF_vars(OnDisconnected_Return(r))

ReentrySpec == ReentryInit /\ [][ReentryNext]_vars /\ ReentryFairness

\* -------------------------------------------------------- UsqueVpnService
\* Usqueandroid.stopTunnel() as the service calls it from disconnect(): the
\* runs after the call
StopTunnelRuns == IF NotRunning THEN runs ELSE InvokeCancel(cancel)
\* the record of that call in the history variable result
StopTunnelResult ==
  [op |-> "StopTunnel", ret |-> "", dev |-> FALSE, task |-> Nil,
   cancelled |-> IF NotRunning THEN Nil ELSE cancel]

\* onStartCommand without the disconnect action: return when isRunning,
\* else establish the interface, set isRunning, build the PacketFlow and the
\* callback and call Usqueandroid.startTunnel; isRunning is set back when
\* that returns an error.  The whole of the handler is one step, the
\* StartTunnel call inside it included.
Service_onStartCommand(profile) ==
  /\ ~service.isRunning
  /\ ~mu
  /\ start.pc = "idle"
  /\ Cardinality(Spawned) < MaxServiceRuns
  /\ stoppedSince' = FALSE
  /\ IF AlreadyRunning
     THEN /\ service' = [service EXCEPT !.isRunning = FALSE]
          /\ result' = [op |-> "StartTunnel", ret |-> ErrAlreadyRunning,
                        dev |-> FALSE, task |-> Nil, cancelled |-> Nil]
          /\ UNCHANGED <<tunnelState, runs, latest>>
     ELSE LET s == [IdleStart EXCEPT !.cb = 1, !.flow = 1, !.fd = 3,
                                     !.sni = ResolveSNI(customSNI),
                                     !.profile = profile]
              r == NextRun
          IN  /\ service' = [service EXCEPT !.isRunning = TRUE]
              /\ cancel' = StoredCancel(r)
              /\ running' = TRUE
              /\ callback' = 1
              /\ runs' = [runs EXCEPT
                            ![r] = NewRun(s, ResolveEndpoint(profile))]
              /\ latest' = r
              /\ result' = [op |-> "StartTunnel", ret |-> "", dev |-> TRUE,
                            task |-> r, cancelled |-> Nil]
  /\ UNCHANGED <<rev, prefs, packets, mu, options, start>>

\* disconnect() called by the user (stop(), the disconnect intent,
\* onRevoke): nothing when isRunning is false, else isRunning = false,
\* Usqueandroid.stopTunnel(), close the interface, stopSelf().
Service_disconnect ==
  /\ ~mu
  /\ service.isRunning
  /\ service' = [service EXCEPT !.isRunning = FALSE]
  /\ runs' = StopTunnelRuns
  /\ running' = FALSE
  /\ result' = StopTunnelResult
  /\ stoppedSince' = TRUE
  /\ UNCHANGED <<rev, prefs, packets, mu, cancel, callback, options, start,
                 latest>>

\* The callback object the service made for run r receives OnDisconnected:
\* it calls disconnect(), which tests the companion object's isRunning, and
\* returns.
Service_onDisconnected(r) ==
  /\ runs[r].task = "incb"
  /\ IF service.isRunning
     THEN /\ ~mu
          /\ service' = [service EXCEPT !.isRunning = FALSE]
          /\ runs' = [StopTunnelRuns EXCEPT ![r].task = "done",
                                            ![r].resetAt = 0]
          /\ running' = FALSE
          /\ result' = StopTunnelResult
          /\ stoppedSince' = TRUE
          /\ UNCHANGED <<cancel, callback, latest>>
     ELSE /\ runs' = [runs EXCEPT ![r].task = "done", ![r].resetAt = 0]
          /\ UNCHANGED <<service, tunnelState, history>>
  /\ UNCHANGED <<rev, prefs, packets, mu, options, start>>

\* The behaviours of the Android service (revision 2): service runs started
\* and disconnected by the user, the Go goroutine of each tunnel run, and
\* the OnDisconnected each delivers to the callback of its service run.
ServiceInit == Init /\ rev = 2
ServiceNext ==
  \/ \E profile \in Profiles : Service_onStartCommand(profile)
  \/ Service_disconnect
  \/ \E r \in Runs : MaintainTunnel_Return(r)
  \/ \E r \in Runs : Exit_Close(r)
  \/ \E r \in Runs : Exit_Reset(r)
  \/ \E r \in Runs : Exit_Notify(r)
  \/ \E r \in Runs : Service_onDisconnected(r)

ServiceSpec == ServiceInit /\ [][ServiceNext]_vars

\* ----------------------------------------------------------- MainActivity
\* what the user can type into the SNI field of the settings dialog
DialogSNIInputs == SNIInputs \cup {DefaultSNI}

\* the options after the setter calls that loadSavedSettings and the Save
\* button make for the values sni, v4, v6, useIpv6: setSNI and setUseIPv6
\* always, setEndpointV4 / setEndpointV6 only for a non-empty string
ApplyToLibrary(sni, v4, v6, use) ==
  /\ customSNI' = sni
  /\ customEndpointV4' = (IF v4 # EpEmpty THEN v4 ELSE customEndpointV4)
  /\ customEndpointV6' = (IF v6 # EpEmpty THEN v6 ELSE customEndpointV6)
  /\ useIPv6' = use
  /\ SetterCalled

\* the Save button of showSettingsDialog: saveSettings, then the setters
MainActivity_Save(sni, v4, v6, use) ==
  /\ resetPc = "idle"
  /\ prefs' = [sni |-> sni, v4 |-> v4, v6 |-> v6, useIPv6 |-> use]
  /\ ApplyToLibrary(sni, v4, v6, use)
  /\ UNCHANGED <<rev, service, packets, mu, tunnelState, customEndpoint,
                 resetPc, runs, history>>

\* the Reset button: saveSettings with the defaults, then
\* Usqueandroid.resetConnectionOptions() (its four assignments, with no
\* other thread calling a setter in these behaviours)
MainActivity_Reset ==
  /\ resetPc = "idle"
  /\ prefs' = NoPrefs
  /\ customSNI' = DefaultSNI
  /\ customEndpointV4' = EpEmpty
  /\ customEndpointV6' = EpEmpty
  /\ useIPv6' = FALSE
  /\ resetClean' = FALSE
  /\ resetQuiet' = TRUE
  /\ start' = [start EXCEPT !.sniInReset = FALSE]
  /\ UNCHANGED <<rev, service, packets, mu, tunnelState, customEndpoint,
                 resetPc, runs, history>>

\* loadSavedSettings, called by onCreate each time the activity is created
MainActivity_loadSavedSettings ==
  /\ resetPc = "idle"
  /\ ApplyToLibrary(prefs.sni, prefs.v4, prefs.v6, prefs.useIPv6)
  /\ UNCHANGED <<rev, app, packets, mu, tunnelState, customEndpoint,
                 resetPc, runs, history>>

\* The behaviours of the settings dialog (revision 2): Save with every
\* combination of field values, Reset, the activity being created again,
\* and tunnels started and stopped.
SettingsInit == Init /\ rev = 2
Settings_StartTunnel ==
  /\ Cardinality(Spawned) < MaxSettingsRuns
  /\ StartTunnel_Enter(1, 1, 3)
SettingsNext ==
  \/ \E sni \in DialogSNIInputs, v4 \in {EpEmpty, EpV4},
        v6 \in EndpointV6Inputs, use \in BOOLEAN :
        MainActivity_Save(sni, v4, v6, use)
  \/ MainActivity_Reset
  \/ MainActivity_loadSavedSettings
  \/ Settings_StartTunnel
  \/ \E profile \in Profiles : StartTunnel_Load("none", profile)
  \/ StartTunnel_Resolve
  \/ StopTunnel

SettingsSpec == SettingsInit /\ [][SettingsNext]_vars

\* ------------------------------------------------------- steps, by effect
\* a StartTunnel call returns in this step
StartReturned ==
  \/ start.pc # "idle" /\ start'.pc = "idle"
  \/ /\ start.pc = "idle" /\ start'.pc = "idle"
     /\ result' # result /\ result'.op = "StartTunnel"

\* a StartTunnel call is entered in this step
StartCalled ==
  /\ start.pc = "idle"
  /\ \/ start'.pc # "idle"
     \/ result' # result /\ result'.op = "StartTunnel"

\* a StopTunnel call runs (and returns) in this step
StopReturned == result' # result /\ result'.op = "StopTunnel"

\* a synchronous step of the StartTunnel call in progress fails in this step
SyncFailure ==
  \/ start.pc = "load" /\ start'.pc = "idle"
  \/ /\ start.pc = "resolve" /\ start'.pc = "idle"
     /\ \/ start.fd < 0
        \/ /\ rev = 1 /\ customEndpoint # EpEmpty
           /\ parseEndpoint(customEndpoint).err # ""

\* ------------------------------------------------------------------ claims

\* C1 (as claimed): IsRunning() is true if and only if the most recent
\* StartTunnel that attempted a start succeeded and neither a StopTunnel nor
\* the exit path of the run it made has completed (reset the flag) since.
C1_RunningIffLatestStartLive ==
  IsRunning <=> /\ latest # Nil
                /\ ~stoppedSince
                /\ runs[latest].task \in {"maintain", "exited", "closed"}

\* C2 (as claimed): at every moment at most one background task spawned by
\* StartTunnel has not yet finished its exit path.
C2_AtMostOneActiveRun == Cardinality(Active) <= 1

\* C3: a StartTunnel call entered while state.running is true returns
\* "Tunnel is already running" in the same critical section and changes
\* nothing: running, cancel, callback and every run (its goroutines and its
\* adapter) are as before, no adapter is made and no task is spawned.
C3_StartWhileRunningRejected ==
  [][(StartCalled /\ running) =>
        /\ result'.op = "StartTunnel"
        /\ result'.ret = ErrAlreadyRunning
        /\ result'.dev = FALSE
        /\ result'.task = Nil
        /\ start' = IdleStart
        /\ mu' = mu
        /\ UNCHANGED <<running, cancel, callback, runs>>]_vars

C3_Witness ==
  /\ result.op = "StartTunnel"
  /\ result.ret = ErrAlreadyRunning
  /\ running
  /\ callback # Nil
  /\ \E r \in Runs : runs[r].task = "maintain"

\* C4 (as claimed): the stored cancel handle is non-nil exactly when
\* state.running is true.
C4_CancelIffRunning == (cancel # Nil) <=> running

\* C4 (amended): whenever state.running is true the stored cancel handle is
\* non-nil; the handle is nil only before the first successful StartTunnel,
\* and afterwards it is the handle of the run started last (StopTunnel and
\* the exit path never clear it).
C4_RunningHasCancel ==
  /\ running => cancel # Nil
  /\ Spawned = {} => cancel = Nil
  /\ Spawned # {} => cancel = Cardinality(Spawned)

C4_Witness ==
  /\ ~running
  /\ cancel # Nil
  /\ result.op = "StopTunnel"
  /\ result.cancelled = cancel

C6_StopCancelsOnceAndReturns ==
  [][(StopReturned /\ running) =>
        /\ ~running'
        /\ cancel # Nil
        /\ result'.cancelled = cancel
        /\ runs'[cancel].cancelCalls = runs[cancel].cancelCalls + 1
        /\ runs'[cancel].ctxDone
        /\ \A r \in Runs :
              /\ r # cancel => runs'[r] = runs[r]
              /\ runs'[r].task = runs[r].task
              /\ runs'[r].delayed = runs[r].delayed
              /\ runs'[r].closeCalls = runs[r].closeCalls
              /\ runs'[r].onDisconnected = runs[r].onDisconnected]_vars

C6_Witness ==
  /\ result.op = "StopTunnel"
  /\ result.cancelled # Nil
  /\ ~running
  /\ runs[result.cancelled].task = "maintain"
  /\ runs[result.cancelled].cancelCalls = 1
  /\ runs[result.cancelled].closeCalls = 0

\* C7: a StopTunnel call that finds state.running false returns without
\* invoking a cancel handle and without changing running, cancel, callback
\* or any run; hence no run's cancel handle is ever invoked twice, however
\* many StopTunnel calls follow one another.
C7_StopWhileIdleIsNoOp ==
  /\ [][(StopReturned /\ ~running) =>
          /\ result'.cancelled = Nil
          /\ result'.ret = ""
          /\ UNCHANGED <<running, cancel, callback, runs, mu, start>>]_vars
  /\ [](\A r \in Runs : runs[r].cancelCalls <= 1)

C7_Witness ==
  /\ result.op = "StopTunnel"
  /\ result.cancelled = Nil
  /\ \E r \in Runs : runs[r].cancelCalls = 1 /\ runs[r].task = "maintain"

\* C8 (as claimed): over the lifetime of every run its cancel handle is
\* invoked exactly once: never twice, and once the run's exit path has
\* finished it has been invoked.
C8_CancelExactlyOncePerRun ==
  \A r \in Runs :
    /\ runs[r].cancelCalls <= 1
    /\ runs[r].task = "done" => runs[r].cancelCalls = 1

\* C9: when a synchronous step of StartTunnel fails (profile, keys,
\* certificate, TLS, adapter, custom endpoint) the call returns a non-empty
\* error string, state.running is false before and after, cancel and
\* callback are unchanged and no background task is spawned.
C9_SyncFailureLeavesIdle ==
  [][SyncFailure =>
        /\ StartReturned
        /\ result'.op = "StartTunnel"
        /\ result'.ret # ""
        /\ result'.task = Nil
        /\ ~running /\ ~running'
        /\ Spawned' = Spawned
        /\ UNCHANGED <<cancel, callback, runs>>]_vars

C9_Witness ==
  /\ result.op = "StartTunnel"
  /\ result.ret = ErrCustomEndpoint
  /\ result.dev
  /\ ~running
  /\ Spawned # {}

\* C10: a StartTunnel call that returns "" has set state.running and spawned
\* exactly one background task, which is still inside api.MaintainTunnel
\* with no notification delivered; tasks are spawned by nothing else, and a
\* task that has left api.MaintainTunnel never re-enters it (no restart).
C10_SuccessSpawnsOneTask ==
  /\ [][(StartReturned /\ result'.ret = "") =>
          /\ running'
          /\ Cardinality(Spawned') = Cardinality(Spawned) + 1
          /\ result'.task \in Spawned' \ Spawned
          /\ runs'[result'.task].task = "maintain"
          /\ runs'[result'.task].delayed = "sleep"
          /\ runs'[result'.task].onConnected = 0]_vars
  /\ [][Spawned' # Spawned => (StartReturned /\ result'.ret = "")]_vars
  /\ [][\A r \in Runs :
          runs[r].task \notin {"none", "maintain"} =>
             runs'[r].task \notin {"none", "maintain"}]_vars

C10_Witness ==
  /\ result.op = "StartTunnel"
  /\ result.ret = ""
  /\ running
  /\ Cardinality(Spawned) = 2
  /\ runs[result.task].task = "maintain"
  /\ runs[result.task].onConnected = 0

\* C11: once api.MaintainTunnel of a run has returned, the exit path runs
\* once and in order: the adapter is closed (exactly once, by that step and
\* by no other), then state.running is set to false with the lock taken, then
\* the run's observer, if there is one, gets a single OnDisconnected with a
\* non-empty reason.
ExitPosition(task) ==
  CASE task = "exited" -> 1
    [] task = "closed" -> 2
    [] task = "reset" -> 3
    [] task = "incb" -> 4
    [] task = "done" -> 5
    [] OTHER -> 0
C11_ExitPathOnceInOrder ==
  /\ [](\A r \in Runs :
          LET p == ExitPosition(runs[r].task) IN
          /\ runs[r].closeCalls = (IF p >= 2 THEN 1 ELSE 0)
          /\ runs[r].onDisconnected =
                (IF p >= 4 /\ runs[r].cb # Nil THEN 1 ELSE 0)
          /\ runs[r].onDisconnected > 0 => runs[r].reason # ""
          /\ runs[r].task = "incb" => runs[r].cb # Nil)
  /\ [][\A r \in Runs :
          runs'[r] # runs[r] =>
            LET p == ExitPosition(runs[r].task)
                q == ExitPosition(runs'[r].task) IN
            /\ q >= p
            /\ (p >= 1 /\ q > p) =>
                  \/ q = p + 1
                  \/ p = 3 /\ q = 5 /\ runs[r].cb = Nil
            /\ (p = 2 /\ q = 3) => ~mu /\ ~running'
            /\ runs'[r].closeCalls # runs[r].closeCalls => p = 1 /\ q = 2]_vars

C11_Witness ==
  \E r \in Runs :
    /\ runs[r].task = "done"
    /\ runs[r].closeCalls = 1
    /\ runs[r].onDisconnected = 1
    /\ runs[r].reason = ReasonTunnelClosed

\* C12: the observer of a run receives at most one OnConnected and at most
\* one OnDisconnected for that run, whatever the interleaving of the run's
\* two goroutines with StartTunnel, StopTunnel and the other runs.
C12_AtMostOneOfEachCallback ==
  \A r \in Runs :
    /\ runs[r].onConnected <= 1
    /\ runs[r].onDisconnected <= 1

C12_Witness ==
  \E r \in Runs :
    /\ runs[r].onConnected = 1
    /\ runs[r].onDisconnected = 1
    /\ runs[r].delayed = "done"
    /\ runs[r].task = "done"

C14_OnConnectedIffRunningAtCheck ==
  /\ [][\A r \in Runs :
          /\ (runs[r].delayed = "sleep" /\ runs'[r].delayed # "sleep") =>
                /\ ~mu
                /\ runs'[r].delayed =
                      (IF running /\ runs[r].cb # Nil THEN "notify" ELSE "done")
                /\ runs'[r].onConnected = runs[r].onConnected
          /\ runs'[r].onConnected # runs[r].onConnected =>
                /\ runs[r].delayed = "notify"
                /\ runs'[r].delayed = "done"
                /\ runs'[r].onConnected = runs[r].onConnected + 1
          /\ runs[r].delayed = "done" => runs'[r].delayed = "done"]_vars
  /\ [](\A r \in Runs :
          /\ runs[r].delayed \in {"none", "sleep", "notify"} =>
                runs[r].onConnected = 0
          /\ runs[r].cb = Nil => runs[r].onConnected = 0)

C14_Witness ==
  \E r, q \in Runs :
    /\ runs[r].delayed = "done" /\ runs[r].onConnected = 1
    /\ runs[q].delayed = "done" /\ runs[q].onConnected = 0
    /\ runs[q].cb # Nil

\* C15: no step of a StartTunnel or StopTunnel call invokes a method of
\* the observer (OnConnected and OnDisconnected; OnError is invoked by
\* nothing); every invocation is made by a step of one of the two
\* goroutines of a run that StartTunnel has spawned, for that run's own
\* observer.
Invocations(run) == run.onConnected + run.onDisconnected
C15_CallbacksOnlyFromSpawnedTasks ==
  [][\A r \in Runs :
       (runs'[r] # runs[r]
          /\ Invocations(runs'[r]) # Invocations(runs[r])) =>
         /\ ~(StartCalled \/ StartReturned \/ StopReturned)
         /\ start' = start /\ result' = result /\ mu' = mu
         /\ stoppedSince' = stoppedSince
         /\ runs[r].task # "none"
         /\ runs[r].cb # Nil
         /\ \/ runs[r].task = "reset" /\ runs'[r].task = "incb"
            \/ runs[r].delayed = "notify" /\ runs'[r].delayed = "done"
         /\ \A q \in Runs \ {r} : runs'[q] = runs[q]]_vars

C15_Witness ==
  /\ result.op = "StopTunnel"
  /\ result.cancelled # Nil
  /\ \E r \in Runs : runs[r].onConnected = 1 /\ runs[r].onDisconnected = 1

\* C16: StartTunnel never combines a customSNI it read after a
\* ResetConnectionOptions call had replaced it with an endpoint override or
\* IPv6 preference that the same call, still in progress and not overtaken
\* by any setter, has yet to reset: the options it uses are never a mixture
\* of values from before and after one reset.
C16_NoMixedOptionsRead ==
  [][(rev = 2 /\ start.pc = "resolve" /\ start'.pc = "idle"
        /\ TunDeviceOk(start.fd)) =>
          ~(start.sniInReset /\ StaleOptionRead)]_vars

\* C17: the endpoint of a run started by StartTunnel (revision 2) is taken
\* from the options as they are when it resolves the endpoint: with useIPv6
\* false the IPv4 override if non-empty, else the profile's IPv4 endpoint;
\* with useIPv6 true the IPv6 override if non-empty, else the profile's IPv6
\* endpoint; the other family's override plays no part; the port is 443
\* in every case.
C17_EndpointResolution ==
  [][(start.pc = "resolve" /\ start'.pc = "idle" /\ result'.task # Nil) =>
        LET run == runs'[result'.task]
            selected ==
              CASE ~useIPv6 /\ customEndpointV4 # EpEmpty -> customEndpointV4
                [] ~useIPv6 /\ customEndpointV4 = EpEmpty -> start.profile.v4
                [] useIPv6 /\ customEndpointV6 # EpEmpty -> customEndpointV6
                [] useIPv6 /\ customEndpointV6 = EpEmpty -> start.profile.v6
        IN  /\ run.ip = ParseIP(selected)
            /\ run.port = DefaultPort
            /\ (IsIPv4(selected) \/ IsIPv6(selected)) => run.ip = selected]_vars

C17_Witness ==
  \E r \in Runs :
    /\ result.op = "StartTunnel" /\ result.task = r
    /\ useIPv6
    /\ customEndpointV6 = EpEmpty
    /\ customEndpointV4 = EpV4
    /\ runs[r].ip = EpProfileV6
    /\ runs[r].port = DefaultPort

\* the override and the profile endpoint of the family that useIPv6 selects
OverrideSelected == IF useIPv6 THEN customEndpointV6 ELSE customEndpointV4
ProfileSelected(profile) == IF useIPv6 THEN profile.v6 ELSE profile.v4
ValidForSelectedFamily(s) == IF useIPv6 THEN IsIPv6(s) ELSE IsIPv4(s)

\* a StartTunnel call returns a configuration error from its endpoint
\* resolution: non-empty error string, nothing started
ResolveRejects ==
  /\ result'.op = "StartTunnel"
  /\ result'.ret # ""
  /\ result'.task = Nil
  /\ ~running'
  /\ runs' = runs

\* C18: when the override and the profile endpoint of the selected family
\* are both empty, StartTunnel returns an error, leaves state.running false
\* and starts no run (api.MaintainTunnel is not invoked with a nil address).
C18_NoAddressIsAnError ==
  [][(rev = 2 /\ start.pc = "resolve" /\ start'.pc = "idle"
        /\ TunDeviceOk(start.fd)
        /\ OverrideSelected = EpEmpty
        /\ ProfileSelected(start.profile) = EpEmpty) => ResolveRejects]_vars

\* C19: when the override of the selected family is set to a text that is
\* not an IP address of that family, StartTunnel returns a non-empty error,
\* leaves state.running false and spawns no task.
C19_MalformedOverrideIsAnError ==
  [][(rev = 2 /\ start.pc = "resolve" /\ start'.pc = "idle"
        /\ TunDeviceOk(start.fd)
        /\ OverrideSelected # EpEmpty
        /\ ~ValidForSelectedFamily(OverrideSelected)) => ResolveRejects]_vars

\* C20: every WritePacket call on an adapter built with a PacketFlow hands
\* the packet to the PacketFlow, writes nothing to the file and returns nil,
\* whatever the PacketFlow does with the packet; every call on an adapter
\* built without one (StartTunnelWithFd) writes the packet to the file and
\* returns the error of that write.
C20_WritePacketRouting ==
  /\ [](\A r \in Runs : \A i \in 1..Len(runs[r].lastWrite) :
          LET w == runs[r].lastWrite[i] IN
          IF runs[r].flow # Nil
          THEN w.sink = w.pkt /\ w.file = "none" /\ w.ret = ""
          ELSE w.sink = "none" /\ w.file = w.pkt)
  /\ [][\A r \in Runs :
          runs'[r].lastWrite # runs[r].lastWrite =>
            \E pkt \in Packets, sinkDid \in SinkOutcomes,
               fileErr \in FileWriteErrors \cup {ErrClosed} :
               runs'[r].lastWrite =
                 IF runs[r].flow # Nil
                 THEN <<[pkt |-> pkt, sink |-> pkt, sinkDid |-> sinkDid,
                         file |-> "none", ret |-> ""]>>
                 ELSE <<[pkt |-> pkt, sink |-> "none", sinkDid |-> "none",
                         file |-> pkt, ret |-> fileErr]>>]_vars

C20_Witness ==
  \E r \in Runs :
    /\ runs[r].flow # Nil
    /\ Len(runs[r].lastWrite) = 1
    /\ runs[r].lastWrite[1].pkt = "p2"
    /\ runs[r].lastWrite[1].sink = "p2"
    /\ runs[r].lastWrite[1].sinkDid = "failed"
    /\ runs[r].lastWrite[1].ret = ""

\* C21: once the exit path has closed a run's adapter, every later
\* ReadPacket and every later WritePacket on it returns an error, whether
\* the adapter was built with a PacketFlow sink or without one.
C21_ErrorAfterClose ==
  [][\A r \in Runs :
       FileClosed(r) =>
         /\ (runs'[r].lastWrite # runs[r].lastWrite
               => runs'[r].lastWrite[1].ret # "")
         /\ (lastRead' # lastRead /\ lastRead'[1].run = r
               => lastRead'[1].err # "")]_vars

\* C23: InputPacket can complete in every state, for every packet.
C23_InputPacketNeverBlocks == \A data \in Packets : ENABLED InputPacket(data)

\* C22: an abnormal failure of the transport-maintenance routine is caught
\* at the root of the background task, which goes on to reset running and
\* notify its observer: the failure never terminates the host process.
C22_FailureCaughtAtRoot == ~HostTerminated

\* C24 (as claimed): once ResetConnectionOptions has returned, reading the
\* options gives the default tuple whatever they were before: SNI
\* "www.visa.cn", IPv4 endpoint empty, IPv6 endpoint empty, IPv6 preference
\* false; and no step of the reset changes the tunnel state.
C24_ReadAfterResetIsDefaultTuple ==
  /\ [](ResetReturned =>
          /\ GetSNI = DefaultSNI
          /\ \A loadOk \in BOOLEAN, profile \in OptProfiles :
                /\ GetEndpointV4(loadOk, profile) = EpEmpty
                /\ GetEndpointV6(loadOk, profile) = EpEmpty
          /\ GetUseIPv6 = FALSE)
  /\ [][resetPc' # resetPc => UNCHANGED <<tunnelState, runs, mu>>]_vars

\* C24 (amended): once ResetConnectionOptions has returned, GetSNI is
\* "www.visa.cn", GetUseIPv6 is false and both overrides are empty, so that
\* GetEndpointV4 and GetEndpointV6 return the endpoint of the profile on
\* disk, or the empty string when no profile can be loaded; and no step of
\* the reset changes the tunnel state.
C24_ResetRestoresDefaults ==
  /\ [](ResetReturned =>
          /\ GetSNI = DefaultSNI
          /\ customEndpointV4 = EpEmpty
          /\ customEndpointV6 = EpEmpty
          /\ \A loadOk \in BOOLEAN, profile \in OptProfiles :
                /\ GetEndpointV4(loadOk, profile) =
                     (IF loadOk THEN profile.v4 ELSE EpEmpty)
                /\ GetEndpointV6(loadOk, profile) =
                     (IF loadOk THEN profile.v6 ELSE EpEmpty)
          /\ GetUseIPv6 = FALSE)
  /\ [][resetPc' # resetPc => UNCHANGED <<tunnelState, runs, mu>>]_vars

\* a run was started with a custom SNI and a custom IPv6 endpoint, and
\* ResetConnectionOptions has returned since
C24_Witness ==
  /\ ResetReturned
  /\ \E r \in Runs : runs[r].sni = CustomSNI /\ runs[r].ip = EpV6

\* C25: the step of StartTunnel that loads the profile from disk, parses
\* the keys and generates the certificate is never taken while the
\* coordinator lock is held, and StopTunnel can run while that step is
\* pending.
C25_NoLoadingUnderLock ==
  /\ [][start.pc = "load" /\ start'.pc # "load" => ~mu]_vars
  /\ [](start.pc = "load" => ENABLED StopTunnel)

\* C26: the SNI and endpoint of a run never change once the run exists,
\* whatever is done to the options; and a StartTunnel gives its run the SNI
\* it read from customSNI during the call and the address selected from the
\* options as they are when it resolves the endpoint, not those of an
\* earlier run.
C26_RunOptionsFixedAtStart ==
  /\ [][\A r \in Runs :
          runs[r].task # "none" =>
            /\ runs'[r].sni = runs[r].sni
            /\ runs'[r].ip = runs[r].ip
            /\ runs'[r].port = runs[r].port]_vars
  /\ [][start.pc = "load" /\ start'.pc = "resolve" =>
          start'.sni = (IF customSNI = "" THEN ConnectSNI ELSE customSNI)]_vars
  /\ [][\A r \in Runs :
          runs[r].task = "none" /\ runs'[r].task # "none" =>
            LET override == IF useIPv6 THEN customEndpointV6
                            ELSE customEndpointV4
                fromProfile == IF useIPv6 THEN start.profile.v6
                               ELSE start.profile.v4
            IN  /\ runs'[r].sni = start.sni
                /\ runs'[r].ip = ParseIP(IF override # EpEmpty THEN override
                                         ELSE fromProfile)
                /\ runs'[r].port = DefaultPort]_vars

\* the first run was started with the defaults and is still being
\* maintained, the options were changed since, and the second run has the
\* custom SNI and the IPv4 override
C26_Witness ==
  /\ runs[1].task = "maintain"
  /\ runs[1].sni = DefaultSNI
  /\ runs[1].ip = EpProfileV4
  /\ runs[2].task = "maintain"
  /\ runs[2].sni = CustomSNI
  /\ runs[2].ip = EpV4
  /\ customSNI = DefaultSNI
  /\ customEndpointV4 = EpEmpty

\* C27: the SNI a StartTunnel passes to the TLS configuration, and gives to
\* its run, is customSNI when that is not empty and the protocol default
\* of the transport when it is empty; when ResetConnectionOptions has
\* returned and no setter was called since, it is "www.visa.cn".
C27_SNIPassedToTLS ==
  /\ [][start.pc = "load" /\ start'.pc = "resolve" =>
          /\ customSNI # "" => start'.sni = customSNI
          /\ customSNI = "" => start'.sni = ConnectSNI
          /\ ResetReturned => start'.sni = DefaultSNI]_vars
  /\ [][start.pc = "resolve" /\ start'.pc = "resolve" =>
          start'.sni = start.sni]_vars
  /\ [](\A r \in Spawned : runs[r].sni \in SNIInputs \cup {DefaultSNI}
                                           \cup {ConnectSNI}
                             /\ runs[r].sni # "")
  /\ [][\A r \in Runs :
          runs[r].task = "none" /\ runs'[r].task # "none" =>
            runs'[r].sni = start.sni]_vars

\* a run started while customSNI was empty carries the protocol default
C27_Witness ==
  \E r \in Spawned : runs[r].sni = ConnectSNI /\ customSNI = ""

\* C28: once the run of the stored handle has ended (it was stopped, its
\* exit path has completed and no StartTunnel is in progress), the
\* coordinator holds no observer reference any more.
C28_ObserverReleasedAfterTeardown ==
  (/\ cancel # Nil
   /\ runs[cancel].ctxDone
   /\ runs[cancel].task = "done"
   /\ ~running
   /\ start.pc = "idle")
    => callback = Nil

\* C29: in revision 1, parseEndpoint gives every custom endpoint what is
\* documented for its form ("host" and "[host]": the host and port 443;
\* "host:port" and "[host]:port": the host and that port; a missing
\* closing bracket or a port that is not an integer: an error); a
\* StartTunnel whose custom endpoint does not parse returns an "Invalid
\* custom endpoint" error, starts no run and leaves running false, and one
\* whose custom endpoint parses starts its run on the documented host and
\* port.
C29_ParseEndpointAsDocumented ==
  /\ [](customEndpoint # EpEmpty =>
          LET p == parseEndpoint(customEndpoint)
              d == DocumentedParse(customEndpoint)
          IN  IF d.ok
              THEN p.err = "" /\ p.host = d.host /\ p.port = d.port
              ELSE p.err # "")
  /\ [][start.pc = "resolve" /\ start'.pc = "idle"
        /\ customEndpoint # EpEmpty =>
          LET d == DocumentedParse(customEndpoint)
          IN  IF d.ok
              THEN /\ result'.ret = ""
                   /\ running'
                   /\ runs'[result'.task].ip = ParseIP(d.host)
                   /\ runs'[result'.task].port = d.port
              ELSE /\ result'.ret = ErrCustomEndpoint
                   /\ ~running'
                   /\ runs' = runs]_vars

\* a run was started on "[2606::1]:80", and a later StartTunnel was refused
\* because of a custom endpoint without its closing bracket
C29_Witness ==
  /\ \E r \in Spawned : runs[r].ip = EpV6 /\ runs[r].port = 80
  /\ customEndpoint = EpV6NoClose
  /\ result.op = "StartTunnel"
  /\ result.ret = ErrCustomEndpoint
  /\ ~running

\* C30: the exit path of an earlier run leaves the running flag alone when
\* a later run has been started since: the step in which run r resets
\* state.running, taken while the stored handle belongs to another run that
\* is marked running, leaves running true.
C30_EarlierExitLeavesLaterRun ==
  [][\A r \in Runs :
       (/\ runs[r].task = "closed"
        /\ runs'[r].task # "closed"
        /\ running
        /\ cancel # Nil
        /\ cancel # r)
         => running']_vars

\* C31: the delayed check of a run that StopTunnel has already cancelled
\* never goes on to invoke that run's OnConnected, whatever the running
\* flag says by then (another run may have been started since).
C31_NoOnConnectedAfterStop ==
  [][\A r \in Runs :
       (/\ runs[r].ctxDone
        /\ runs[r].delayed = "sleep"
        /\ runs'[r].delayed # "sleep")
         => runs'[r].delayed = "done"]_vars

\* C32: no run's observer is sent OnConnected once it has been sent
\* OnDisconnected for that run.
C32_NoOnConnectedAfterOnDisconnected ==
  [][\A r \in Runs :
       runs'[r].onConnected > runs[r].onConnected
         => runs[r].onDisconnected = 0]_vars

\* C33: every observer callback is invoked by a goroutine that holds no
\* lock: between steps state.mu is held only by a StartTunnel call in
\* progress, before and after every step that invokes OnConnected or
\* OnDisconnected; and an OnDisconnected in which the observer calls
\* IsRunning or StopTunnel always returns.
C33_CallbacksOutsideLock ==
  /\ [](mu => start.pc # "idle")
  /\ [][\A r \in Runs :
          Invocations(runs'[r]) > Invocations(runs[r]) =>
            /\ mu => start.pc # "idle"
            /\ mu' => start'.pc # "idle"
            /\ mu' = mu]_vars
  /\ \A r \in Runs : (runs[r].task = "incb") ~> (runs[r].task = "done")

\* an observer has called StopTunnel from inside OnDisconnected while
\* another run was marked running, and its callback has returned
C33_Witness ==
  \E r, q \in Runs :
    /\ r # q
    /\ runs[r].task = "done"
    /\ runs[r].onDisconnected = 1
    /\ runs[r].sawRunning = "none"
    /\ result.op = "StopTunnel"
    /\ result.cancelled = q

\* C34: an OnDisconnected that the callback of an earlier service run
\* receives while the tunnel of a later service run is being maintained
\* leaves the later run alone: isRunning stays true (the service does not
\* report stopped while that tunnel is active) and the later run's context
\* is not cancelled by it.
C34_LateOnDisconnectedLeavesLaterRun ==
  [][\A r \in Runs :
       (/\ runs[r].task = "incb"
        /\ runs'[r].task = "done"
        /\ cancel # Nil
        /\ cancel # r
        /\ runs[cancel].task = "maintain"
        /\ service.isRunning)
         => /\ service'.isRunning
            /\ runs'[cancel].ctxDone = runs[cancel].ctxDone]_vars

\* C35: whenever the settings dialog has written the preferences, the
\* options held by the library equal the values just written; and a
\* StartTunnel made while the saved endpoint of the preferred family is
\* empty starts its run on the endpoint of the profile.
C35_LibraryMatchesSavedSettings ==
  /\ [][prefs' # prefs =>
          /\ customSNI' = prefs'.sni
          /\ customEndpointV4' = prefs'.v4
          /\ customEndpointV6' = prefs'.v6
          /\ useIPv6' = prefs'.useIPv6]_vars
  /\ [][\A r \in Runs :
          (/\ runs[r].task = "none"
           /\ runs'[r].task # "none"
           /\ (IF prefs.useIPv6 THEN prefs.v6 ELSE prefs.v4) = EpEmpty)
            => runs'[r].ip =
                 ParseIP(IF prefs.useIPv6 THEN start.profile.v6
                         ELSE start.profile.v4)]_vars

====
